---- MODULE Spec2Model ----
(***************************************************************************)
(* A model of pyfair's two building blocks:                                *)
(*   - FairBaseCurve._input_check  (src/pyfair/report/base_curve.py)       *)
(*   - FairBetaPert.__init__ and its derivation helpers                    *)
(*     (src/pyfair/utility/beta_pert.py)                                   *)
(* One behaviour is one call.  `pc` is the position inside the running     *)
(* call, `calls` the sequence of operations the call has performed so far  *)
(* (attribute probes on its input, or private methods it has invoked).     *)
(* Numbers are exact: Python's true division is modelled on rationals      *)
(* <<numerator, denominator>> in lowest terms, and a zero divisor raises   *)
(* ZeroDivisionError as it does for Python int and float operands.         *)
(***************************************************************************)
EXTENDS Integers, Sequences, FiniteSets, TLC

VARIABLES pc, value, rv, idx, calls, outcome, result, error, self

vars == <<pc, value, rv, idx, calls, outcome, result, error, self>>

(***************************************************************************)
(* Bounds of the model.                                                    *)
(***************************************************************************)
\* longest collection handed to _input_check
MaxLen == 3
\* what a value that is itself a model yields when iterated: at most this many
MaxModelItems == 1
\* low, mode and high range over -1 .. MaxVal
MaxVal == 10
\* gamma ranges over -MaxGamma .. MaxGamma
MaxGamma == 4

(***************************************************************************)
(* Program constants.                                                      *)
(***************************************************************************)
DefaultGamma == 4

MsgNotIterable == "Input is not a FairModel, FairMetaModel, or an iterable."
MsgEmpty == "Input is an empty iterable."
MsgMember == "Iterable member is not a FairModel or FairMetaModel"
MsgRange == "\"low\" value must be less than \"high\" value."

RecognisedNames == {"FairModel", "FairMetaModel"}

\* the mutant of IsRecognised: the second tag is forgotten
IsRecognisedOnlyModel(cls) == cls = "FairModel"

\* value.__class__.__name__ in ['FairModel', 'FairMetaModel']
IsRecognised(cls) == cls \in RecognisedNames

(***************************************************************************)
(* The inputs of _input_check.  An object is a record: `cls` its class     *)
(* name, `name` what get_name() returns, `hasGetName` whether get_name()   *)
(* can be called at all (AttributeError otherwise).  The top-level value   *)
(* also says whether it has __iter__ (`iter`), whether len() works on it   *)
(* (`sized`) and what iterating it yields (`items`).  Object identity is   *)
(* the `id`: 0 for the value itself, the position for a member.            *)
(***************************************************************************)
Names == {"A", "B", "C"}
NoName == "-"
OtherClass == "str"

ElemKinds ==
    [cls : RecognisedNames, name : Names, hasGetName : BOOLEAN]
    \cup {[cls |-> OtherClass, name |-> NoName, hasGetName |-> FALSE]}

ItemSeqs(max) == UNION {[1..n -> ElemKinds] : n \in 0..max}

WithIds(s) ==
    [i \in 1..Len(s) |->
        [id |-> i, cls |-> s[i].cls, name |-> s[i].name,
         hasGetName |-> s[i].hasGetName]]

Shapes(max) ==
    {[iter |-> FALSE, sized |-> FALSE, items |-> <<>>]}
    \cup {[iter |-> TRUE, sized |-> z, items |-> WithIds(s)] :
            z \in BOOLEAN, s \in ItemSeqs(max)}

Top(k, sh) ==
    [id |-> 0, cls |-> k.cls, name |-> k.name, hasGetName |-> k.hasGetName,
     iter |-> sh.iter, sized |-> sh.sized, items |-> sh.items]

\* values that are themselves models, and values of any other class
Values ==
    {Top(k, sh) :
        k \in [cls : RecognisedNames, name : Names, hasGetName : BOOLEAN],
        sh \in Shapes(MaxModelItems)}
    \cup {Top([cls |-> "list", name |-> NoName, hasGetName |-> FALSE], sh) :
            sh \in Shapes(MaxLen)}

NoValue ==
    [id |-> 0, cls |-> "NoneType", name |-> NoName, hasGetName |-> FALSE,
     iter |-> FALSE, sized |-> FALSE, items |-> <<>>]

\* the empty dict
EmptyDict == [n \in {} |-> 0]

NoError == [kind |-> "none", msg |-> ""]

FairException(msg) == [kind |-> "FairException", msg |-> msg]

AttributeError == [kind |-> "AttributeError", msg |-> "get_name"]

TypeError == [kind |-> "TypeError", msg |-> "object has no len()"]

ZeroDivisionError == [kind |-> "ZeroDivisionError", msg |-> "division by zero"]

\* the mutant of DictSet: an existing key is kept (dict.setdefault)
DictSetDefault(d, k, v) ==
    [n \in DOMAIN d \cup {k} |-> IF n \in DOMAIN d THEN d[n] ELSE v]

\* rv[k] = v
DictSet(d, k, v) ==
    [n \in DOMAIN d \cup {k} |-> IF n = k THEN v ELSE d[n]]

\* the object a stored reference denotes
Obj(i) == IF i = 0 THEN value ELSE value.items[i]

Unset == <<>>

NoSelf ==
    [low |-> Unset, mode |-> Unset, high |-> Unset, gamma |-> Unset,
     range |-> Unset, mean |-> Unset, stdev |-> Unset, alpha |-> Unset,
     beta |-> Unset, curve |-> Unset]

Init ==
    /\ pc = "idle"
    /\ value = NoValue
    /\ rv = EmptyDict
    /\ idx = 0
    /\ calls = <<>>
    /\ outcome = "none"
    /\ result = EmptyDict
    /\ error = NoError
    /\ self = NoSelf

Raise(e) ==
    /\ pc' = "done"
    /\ outcome' = "raised"
    /\ error' = e

(***************************************************************************)
(* FairBaseCurve._input_check(value)                                       *)
(***************************************************************************)
\* entry, and rv = {}
InputCheck ==
    /\ pc = "idle"
    /\ pc' = "check_class"
    /\ value' \in Values
    /\ rv' = EmptyDict
    /\ UNCHANGED <<idx, calls, outcome, result, error, self>>

\* the mutant of SingleKey: the mapping is keyed by the class name
SingleKeyByClass(v) == v.cls

\* the key the single-model path stores the value under
SingleKey(v) == v.name

\* if value.__class__.__name__ in [...]: rv[value.get_name()] = value; return rv
CheckClass ==
    /\ pc = "check_class"
    /\ IF IsRecognised(value.cls)
       THEN /\ calls' = calls \o <<"__class__", "get_name">>
            /\ IF value.hasGetName
               THEN /\ rv' = DictSet(rv, SingleKey(value), value.id)
                    /\ result' = rv'
                    /\ outcome' = "returned"
                    /\ pc' = "done"
                    /\ UNCHANGED error
               ELSE /\ Raise(AttributeError)
                    /\ UNCHANGED <<rv, result>>
       ELSE /\ calls' = Append(calls, "__class__")
            /\ pc' = "check_iter"
            /\ UNCHANGED <<rv, result, outcome, error>>
    /\ UNCHANGED <<value, idx, self>>

\* if not hasattr(value, '__iter__'): raise FairException(...)
CheckIter ==
    /\ pc = "check_iter"
    /\ calls' = Append(calls, "hasattr")
    /\ IF ~value.iter
       THEN Raise(FairException(MsgNotIterable))
       ELSE /\ pc' = "check_len"
            /\ UNCHANGED <<outcome, error>>
    /\ UNCHANGED <<value, rv, idx, result, self>>

\* the mutant of IsEmptyLen: an off-by-one emptiness test
IsEmptyLenOffByOne(n) == n <= 1

\* len(value) == 0
IsEmptyLen(n) == n = 0

\* else: if len(value) == 0: raise FairException(...)
CheckLen ==
    /\ pc = "check_len"
    /\ calls' = Append(calls, "len")
    /\ IF ~value.sized
       THEN /\ Raise(TypeError)
            /\ UNCHANGED idx
       ELSE IF IsEmptyLen(Len(value.items))
       THEN /\ Raise(FairException(MsgEmpty))
            /\ UNCHANGED idx
       ELSE /\ pc' = "loop"
            /\ idx' = 1
            /\ UNCHANGED <<outcome, error>>
    /\ UNCHANGED <<value, rv, result, self>>

\* the mutant of MemberRejected: the class test of the loop is dropped
MemberRejectedNever(cls) == FALSE

\* the else branch of the loop body: the member's class is not recognised
MemberRejected(cls) == ~IsRecognised(cls)

\* one turn of: for proported_model in value: ...
LoopStep ==
    /\ pc = "loop"
    /\ idx <= Len(value.items)
    /\ LET m == value.items[idx] IN
       IF ~MemberRejected(m.cls)
       THEN /\ calls' = calls \o <<"next", "get_name">>
            /\ IF m.hasGetName
               THEN /\ rv' = DictSet(rv, m.name, m.id)
                    /\ idx' = idx + 1
                    /\ UNCHANGED <<pc, outcome, error>>
               ELSE /\ Raise(AttributeError)
                    /\ UNCHANGED <<rv, idx>>
       ELSE /\ calls' = Append(calls, "next")
            /\ Raise(FairException(MsgMember))
            /\ UNCHANGED <<rv, idx>>
    /\ UNCHANGED <<value, result, self>>

\* the loop is exhausted: return rv
LoopReturn ==
    /\ pc = "loop"
    /\ idx > Len(value.items)
    /\ pc' = "done"
    /\ outcome' = "returned"
    /\ result' = rv
    /\ UNCHANGED <<value, rv, idx, calls, error, self>>

NextCurve ==
    \/ InputCheck
    \/ CheckClass
    \/ CheckIter
    \/ CheckLen
    \/ LoopStep
    \/ LoopReturn

SpecCurve == Init /\ [][NextCurve]_vars

(***************************************************************************)
(* Exact arithmetic: a rational is <<n, d>> with d > 0 and gcd(n, d) = 1.  *)
(***************************************************************************)
Abs(x) == IF x < 0 THEN -x ELSE x

RECURSIVE GCD(_, _)
GCD(a, b) == IF b = 0 THEN a ELSE GCD(b, a % b)

\* n / d in lowest terms, d # 0
Rat(n, d) ==
    LET g == GCD(Abs(n), Abs(d))
        s == IF d < 0 THEN -1 ELSE 1
    IN  <<(s * n) \div g, (s * d) \div g>>

FromInt(i) == <<i, 1>>

RatAdd(a, b) == Rat(a[1] * b[2] + b[1] * a[2], a[2] * b[2])

RatSub(a, b) == Rat(a[1] * b[2] - b[1] * a[2], a[2] * b[2])

RatMul(a, b) == Rat(a[1] * b[1], a[2] * b[2])

\* a / b, b # 0
RatDiv(a, b) == Rat(a[1] * b[2], a[2] * b[1])

RatIsZero(a) == a[1] = 0

\* what a division evaluates to: a quotient, or ZeroDivisionError
Quotient(a, b) ==
    IF RatIsZero(b) THEN [ok |-> FALSE, val |-> Unset]
    ELSE [ok |-> TRUE, val |-> RatDiv(a, b)]

(***************************************************************************)
(* FairBetaPert.__init__(low, mode, high, gamma=4)                         *)
(***************************************************************************)
Numbers == -1..MaxVal

Gammas == (0 - MaxGamma)..MaxGamma

\* self._low = low ... self._range = high - low
Construct ==
    /\ pc = "idle"
    /\ \E l \in Numbers, m \in Numbers, h \in Numbers,
          g \in Gammas \cup {DefaultGamma} :
         self' = [NoSelf EXCEPT !.low = FromInt(l), !.mode = FromInt(m),
                                !.high = FromInt(h), !.gamma = FromInt(g),
                                !.range = FromInt(h - l)]
    /\ pc' = "range_check"
    /\ UNCHANGED <<value, rv, idx, calls, outcome, result, error>>

\* the mutant of RangeInvalid: a strict comparison lets low = high through
RangeInvalidStrict(s) == s.range[1] < 0

\* self._range <= 0
RangeInvalid(s) == s.range[1] <= 0

\* self._run_range_check()
RunRangeCheck ==
    /\ pc = "range_check"
    /\ calls' = Append(calls, "_run_range_check")
    /\ IF RangeInvalid(self)
       THEN Raise(FairException(MsgRange))
       ELSE /\ pc' = "mean"
            /\ UNCHANGED <<outcome, error>>
    /\ UNCHANGED <<value, rv, idx, result, self>>

\* the mutant of GenerateMean: the divisor of the classic PERT, 6
GenerateMeanClassic(s) ==
    Quotient(RatAdd(RatAdd(s.low, RatMul(s.gamma, s.mode)), s.high),
             FromInt(6))

\* (low + gamma * mode + high) / (gamma + 2)
GenerateMean(s) ==
    Quotient(RatAdd(RatAdd(s.low, RatMul(s.gamma, s.mode)), s.high),
             RatAdd(s.gamma, FromInt(2)))

\* the mutant of GenerateStdev: the divisor of the classic PERT, 6
GenerateStdevClassic(s) ==
    Quotient(RatSub(s.high, s.low), FromInt(6))

\* (high - low) / (gamma + 2)
GenerateStdev(s) ==
    Quotient(RatSub(s.high, s.low), RatAdd(s.gamma, FromInt(2)))

\* group_1 * (group_2 - 1)
GenerateAlpha(s) ==
    LET group_1 == Quotient(RatSub(s.mean, s.low), RatSub(s.high, s.low))
        group_2 == Quotient(RatMul(RatSub(s.mean, s.low),
                                   RatSub(s.high, s.mean)),
                            RatMul(s.stdev, s.stdev))
    IN  IF group_1.ok /\ group_2.ok
        THEN [ok |-> TRUE,
              val |-> RatMul(group_1.val, RatSub(group_2.val, FromInt(1)))]
        ELSE [ok |-> FALSE, val |-> Unset]

\* beta_numerator / beta_denominator
GenerateBeta(s) ==
    Quotient(RatMul(s.alpha, RatSub(s.high, s.mean)), RatSub(s.mean, s.low))

\* self._mean = self._generate_mean()
StepMean ==
    /\ pc = "mean"
    /\ calls' = Append(calls, "_generate_mean")
    /\ LET q == GenerateMean(self) IN
       IF q.ok
       THEN /\ self' = [self EXCEPT !.mean = q.val]
            /\ pc' = "stdev"
            /\ UNCHANGED <<outcome, error>>
       ELSE /\ Raise(ZeroDivisionError)
            /\ UNCHANGED self
    /\ UNCHANGED <<value, rv, idx, result>>

\* self._stdev = self._generate_stdev()
StepStdev ==
    /\ pc = "stdev"
    /\ calls' = Append(calls, "_generate_stdev")
    /\ LET q == GenerateStdev(self) IN
       IF q.ok
       THEN /\ self' = [self EXCEPT !.stdev = q.val]
            /\ pc' = "alpha"
            /\ UNCHANGED <<outcome, error>>
       ELSE /\ Raise(ZeroDivisionError)
            /\ UNCHANGED self
    /\ UNCHANGED <<value, rv, idx, result>>

\* self._alpha = self._generate_alpha()
StepAlpha ==
    /\ pc = "alpha"
    /\ calls' = Append(calls, "_generate_alpha")
    /\ LET q == GenerateAlpha(self) IN
       IF q.ok
       THEN /\ self' = [self EXCEPT !.alpha = q.val]
            /\ pc' = "beta"
            /\ UNCHANGED <<outcome, error>>
       ELSE /\ Raise(ZeroDivisionError)
            /\ UNCHANGED self
    /\ UNCHANGED <<value, rv, idx, result>>

\* self._beta = self._generate_beta()
StepBeta ==
    /\ pc = "beta"
    /\ calls' = Append(calls, "_generate_beta")
    /\ LET q == GenerateBeta(self) IN
       IF q.ok
       THEN /\ self' = [self EXCEPT !.beta = q.val]
            /\ pc' = "curve"
            /\ UNCHANGED <<outcome, error>>
       ELSE /\ Raise(ZeroDivisionError)
            /\ UNCHANGED self
    /\ UNCHANGED <<value, rv, idx, result>>

\* self._beta_curve = scipy.stats.beta(alpha, beta, low, range)
BuildCurve ==
    /\ pc = "curve"
    /\ calls' = Append(calls, "scipy.stats.beta")
    /\ self' = [self EXCEPT
                  !.curve = <<self.alpha, self.beta, self.low, self.range>>]
    /\ pc' = "done"
    /\ outcome' = "constructed"
    /\ UNCHANGED <<value, rv, idx, result, error>>

NextPert ==
    \/ Construct
    \/ RunRangeCheck
    \/ StepMean
    \/ StepStdev
    \/ StepAlpha
    \/ StepBeta
    \/ BuildCurve

SpecPert == Init /\ [][NextPert]_vars

(***************************************************************************)
(* Properties of _input_check, checked under SpecCurve.                    *)
(***************************************************************************)
\* the errors the specification enumerates, word for word
SaidNotIterable ==
    [kind |-> "FairException",
     msg |-> "Input is not a FairModel, FairMetaModel, or an iterable."]

SaidEmpty ==
    [kind |-> "FairException",
     msg |-> "Input is an empty iterable."]

SaidMember ==
    [kind |-> "FairException",
     msg |-> "Iterable member is not a FairModel or FairMetaModel"]

SaidRange ==
    [kind |-> "FairException",
     msg |-> "\"low\" value must be less than \"high\" value."]

Tags == {"FairModel", "FairMetaModel"}

Tagged(o) == o.cls \in Tags

Finished == pc = "done"

Returned == Finished /\ outcome = "returned"

RaisedWith(e) == Finished /\ outcome = "raised" /\ error = e

\* the references the call was given: the value itself, or its members
Supplied == IF Tagged(value) THEN {0} ELSE 1..Len(value.items)

Probes == {"hasattr", "len", "next"}

Probed == \E i \in 1..Len(calls) : calls[i] \in Probes

\* a value of an unrecognised class that iterates and has a length
SizedCollection == ~Tagged(value) /\ value.iter /\ value.sized

BadMembers == {i \in 1..Len(value.items) : ~Tagged(value.items[i])}

FirstBad == CHOOSE i \in BadMembers : \A j \in BadMembers : i <= j

\* C1: whenever _input_check returns, the mapping is not empty, its keys are
\* exactly the get_name() values of the supplied models, and every key maps
\* to a supplied model whose get_name() is that key.
C1_ReturnedMappingIsNameKeyed ==
    Returned =>
        /\ DOMAIN result # {}
        /\ DOMAIN result = {Obj(i).name : i \in Supplied}
        /\ \A k \in DOMAIN result :
             /\ result[k] \in Supplied
             /\ Tagged(Obj(result[k]))
             /\ Obj(result[k]).name = k

\* three models named A, B and C come back as a three-entry mapping
C1_Witness ==
    /\ Returned
    /\ ~Tagged(value)
    /\ Len(value.items) = 3
    /\ DOMAIN result = {"A", "B", "C"}

\* C2: a value whose class name is FairModel or FairMetaModel (a model: its
\* get_name() answers) is returned as the one-entry mapping
\* {value.get_name(): value} by the first step, and neither hasattr, len nor
\* iteration is ever applied to it, whatever it would answer to them.
C2_SingleModelReturnsAtOnce ==
    (Tagged(value) /\ value.hasGetName /\ pc # "check_class") =>
        /\ Returned
        /\ DOMAIN result = {value.name}
        /\ result[value.name] = 0
        /\ calls = <<"__class__", "get_name">>
        /\ ~Probed

\* a model that iterates, and yields something that is no model, is returned
C2_Witness ==
    /\ Returned
    /\ Tagged(value)
    /\ value.iter
    /\ BadMembers # {}
    /\ DOMAIN result = {value.name}

\* C3: a non-empty sized collection with a member that is no model never
\* yields a mapping: the call ends raised, the caller's result stays empty at
\* every step, and when the models before the first such member answer
\* get_name() the error is FairException 'Iterable member is not a FairModel
\* or FairMetaModel'.
C3_BadMemberIsAllOrNothing ==
    (SizedCollection /\ BadMembers # {}) =>
        /\ result = EmptyDict
        /\ outcome # "returned"
        /\ Finished =>
             /\ outcome = "raised"
             /\ (\A j \in 1..(FirstBad - 1) : value.items[j].hasGetName)
                   => error = SaidMember

\* two models were stored before the string in third place was met
C3_Witness ==
    /\ SizedCollection
    /\ BadMembers # {}
    /\ FirstBad = 3
    /\ Cardinality(DOMAIN rv) = 2
    /\ RaisedWith(SaidMember)
    /\ result = EmptyDict

\* C4: for a value of an unrecognised class the call fails with 'Input is not
\* a FairModel, FairMetaModel, or an iterable.' exactly when the value has no
\* __iter__, and otherwise with 'Input is an empty iterable.' exactly when
\* its length is zero; that failure comes before any member is fetched.
C4_NotIterableAndEmptyErrors ==
    (Finished /\ ~Tagged(value)) =>
        /\ RaisedWith(SaidNotIterable) <=> ~value.iter
        /\ value.iter =>
             (RaisedWith(SaidEmpty)
                <=> (value.sized /\ Len(value.items) = 0))
        /\ RaisedWith(SaidEmpty) =>
             calls = <<"__class__", "hasattr", "len">>

\* the empty list is refused after the length query
C4_Witness ==
    /\ ~Tagged(value)
    /\ value.iter
    /\ value.sized
    /\ value.items = <<>>
    /\ RaisedWith(SaidEmpty)

\* C5: every call either returns a mapping or fails with a FairException
\* carrying one of the three messages; no other error kind comes out.
C5_OnlyFairExceptions ==
    Finished =>
        \/ outcome = "returned"
        \/ /\ outcome = "raised"
           /\ error \in {SaidNotIterable, SaidEmpty, SaidMember}

\* C10: a sized collection of models only, all answering get_name(), is
\* accepted even when names repeat: the mapping has one entry per distinct
\* name, and each name maps to the last member that bears it.
C10_DuplicateNamesLastWins ==
    (/\ Finished
     /\ SizedCollection
     /\ value.items # <<>>
     /\ \A i \in 1..Len(value.items) :
          Tagged(value.items[i]) /\ value.items[i].hasGetName) =>
        /\ outcome = "returned"
        /\ DOMAIN result = {value.items[i].name : i \in 1..Len(value.items)}
        /\ \A n \in DOMAIN result :
             /\ value.items[result[n]].name = n
             /\ \A i \in 1..Len(value.items) :
                  value.items[i].name = n => i <= result[n]

\* three models, two of them named A: two entries, and A is the later one
C10_Witness ==
    /\ Returned
    /\ SizedCollection
    /\ Len(value.items) = 3
    /\ value.items[1].name = "A"
    /\ value.items[2].name = "A"
    /\ Cardinality(DOMAIN result) = 2
    /\ result["A"] = 2

(***************************************************************************)
(* Properties of FairBetaPert.__init__, checked under SpecPert.            *)
(***************************************************************************)
Constructing == self.low # Unset

\* the integer an input field holds
Arg(f) == f[1]

LowBelowHigh == Constructing /\ Arg(self.low) < Arg(self.high)

Underived ==
    /\ self.mean = Unset
    /\ self.stdev = Unset
    /\ self.alpha = Unset
    /\ self.beta = Unset
    /\ self.curve = Unset

\* C6: construction fails with FairException '"low" value must be less than
\* "high" value.' exactly when low >= high, whatever mode and gamma are; the
\* failure comes from the range check, before mean, stdev, alpha, beta or the
\* Beta distribution exist, and it never comes when low < high.
C6_RangeErrorIffLowNotBelowHigh ==
    (Constructing /\ pc # "range_check") =>
        /\ RaisedWith(SaidRange)
             <=> Arg(self.low) >= Arg(self.high)
        /\ error = SaidRange =>
             /\ Underived
             /\ calls = <<"_run_range_check">>

\* low = high = 10, mode = 5 and gamma = -2 is refused by the range check
C6_Witness ==
    /\ Constructing
    /\ Arg(self.low) = 10
    /\ Arg(self.mode) = 5
    /\ Arg(self.high) = 10
    /\ Arg(self.gamma) = -2
    /\ RaisedWith(SaidRange)
    /\ Underived

Symmetric ==
    /\ LowBelowHigh
    /\ 2 * Arg(self.mode) = Arg(self.low) + Arg(self.high)
    /\ Arg(self.gamma) > 0

\* C7: for low < high, mode midway between them and gamma > 0, construction
\* succeeds with mean = mode, stdev = (high - low) / (gamma + 2), and alpha
\* and beta positive and equal.
C7_SymmetricDerivation ==
    (Symmetric /\ Finished) =>
        /\ outcome = "constructed"
        /\ self.mean = self.mode
        /\ self.stdev[1] * (Arg(self.gamma) + 2)
             = (Arg(self.high) - Arg(self.low)) * self.stdev[2]
        /\ self.alpha = self.beta
        /\ self.alpha[1] > 0
        /\ self.alpha[2] > 0

\* low = 0, mode = 5, high = 10, gamma = 4: mean 5, stdev 10/6 = 5/3
C7_Witness ==
    /\ Finished
    /\ outcome = "constructed"
    /\ Arg(self.low) = 0
    /\ Arg(self.mode) = 5
    /\ Arg(self.high) = 10
    /\ Arg(self.gamma) = 4
    /\ self.mean = <<5, 1>>
    /\ self.stdev = <<5, 3>>
    /\ self.alpha = <<4, 1>>
    /\ self.beta = <<4, 1>>

GammaMinusTwo == LowBelowHigh /\ Arg(self.gamma) = -2

\* C8 as stated: with low < high and gamma = -2 the derived stdev is 0 and
\* the division by zero arises in the alpha formula, the third derivation
\* step, after mean and stdev were computed.
C8_AsStated ==
    (GammaMinusTwo /\ Finished) =>
        /\ self.stdev = <<0, 1>>
        /\ RaisedWith(ZeroDivisionError)
        /\ calls = <<"_run_range_check", "_generate_mean", "_generate_stdev",
                     "_generate_alpha">>

\* C8 as amended: with low < high and gamma = -2 the division by zero arises
\* in the mean formula, the first derivation step, whose divisor is
\* gamma + 2; construction ends there with ZeroDivisionError, and neither
\* stdev nor alpha nor beta is ever computed.
C8_DivisionByZeroInMean ==
    (GammaMinusTwo /\ pc \notin {"range_check", "mean"}) =>
        /\ RaisedWith(ZeroDivisionError)
        /\ calls = <<"_run_range_check", "_generate_mean">>
        /\ Underived

\* low = 0, mode = 5, high = 10, gamma = -2 stops in _generate_mean
C8_Witness ==
    /\ GammaMinusTwo
    /\ Arg(self.low) = 0
    /\ Arg(self.mode) = 5
    /\ Arg(self.high) = 10
    /\ RaisedWith(ZeroDivisionError)
    /\ calls = <<"_run_range_check", "_generate_mean">>

====
